---- MODULE Spec2Model ----
(***************************************************************************)
(* Adaptive transcription pipeline of take-my-dictation.                   *)
(*                                                                         *)
(*  - DriverSpec: one invocation of ProductionWhisperService.transcribe    *)
(*    (app/services/production_whisper_service.py), one action per await   *)
(*    point of the coroutine.                                              *)
(*  - Spec: concurrent create_transcription requests                       *)
(*    (app/api/transcriptions.py) running TranscriptionService             *)
(*    (app/services/transcription_service.py) over the transcriptions      *)
(*    table (app/models/transcription.py).                                 *)
(*                                                                         *)
(* Scores are in thousandths (1000 = 1.0), temperatures in tenths.         *)
(***************************************************************************)
EXTENDS Integers, Sequences, FiniteSets, TLC

\* ------------------------------------------------------------------ bounds
\* max_retries ranges over -NegRetries .. MaxRetries
NegRetries == 1
MaxRetries == 6
\* concurrent create_transcription requests, and recordings they name
NumTasks == 2
NumRecordings == 2

\* ------------------------------------------------------- program constants
TEMPERATURE_SEQUENCE == <<2, 0, 4, 3, 6>>
\* max_retries=5 as passed by transcribe_audio_production
PRODUCTION_MAX_RETRIES == 5

None == "None"
\* Python's None where the other values are records
Nothing == [nothing |-> TRUE]

Min(a, b) == IF a < b THEN a ELSE b
Max(a, b) == IF a > b THEN a ELSE b

\* the slice that keeps the end of the sequence instead of its start
PySlicePrefix_Suffix(seq, n) ==
    SubSeq(seq, Len(seq) - Min(Max(n, 0), Len(seq)) + 1, Len(seq))

\* seq[:n] of Python, for any integer n
PySlicePrefix(seq, n) ==
    IF n >= 0 THEN SubSeq(seq, 1, Min(n, Len(seq)))
              ELSE SubSeq(seq, 1, Max(Len(seq) + n, 0))

\* ------------------------------------------------------------------ texts
\* A text returned by the capability, described by what the detector
\* measures on it: empty string or not, RepetitionDetector.detect's verdict,
\* the unique-word-ratio band (0: >= 0.5 or <= 10 words, 1: in [0.3, 0.5),
\* 3: < 0.3) and whether more than 10% of its characters lie above U+FFFF.
Text(name, empty, rep, div, garbled) ==
    [name |-> name, empty |-> empty, rep |-> rep, div |-> div,
     garbled |-> garbled, language |-> "en"]

Texts ==
    { Text("clean",          FALSE, FALSE, 0, FALSE),
      Text("mild",           FALSE, FALSE, 1, FALSE),
      Text("garbled",        FALSE, FALSE, 0, TRUE),
      Text("lowdiv",         FALSE, FALSE, 3, FALSE),
      Text("lowdiv_garbled", FALSE, FALSE, 3, TRUE),
      Text("loop",           FALSE, TRUE,  0, FALSE),
      Text("loop_mild",      FALSE, TRUE,  1, FALSE),
      Text("loop_noise",     FALSE, TRUE,  3, TRUE),
      Text("empty",          TRUE,  FALSE, 0, FALSE) }

\* exceptions the capability call can raise
ErrKinds == {"transient", "fatal"}

\* RepetitionDetector.detect(text)[0]
detect(text) == (~text.empty) /\ text.rep

\* a - b on IEEE-754 doubles, in thousandths: every difference taken by
\* calculate_quality_score is the double nearest the decimal result, except
\* 0.7 - 0.2 = 0.49999999999999994, which lies below 0.5 (499 here).
FloatSub(a, b) == IF a = 700 /\ b = 200 THEN 499 ELSE a - b

\* the score with a penalty of 0.1 for repetition
calculate_quality_score_LightPenalty(text) ==
    IF text.empty THEN 0
    ELSE Max(0, 1000 - (IF detect(text) THEN 100 ELSE 0)
                     - (IF text.div = 3 THEN 300 ELSE 0))

calculate_quality_score(text) ==
    IF text.empty THEN 0
    ELSE LET s0 == 1000
             s1 == IF detect(text) THEN FloatSub(s0, 500) ELSE s0
             s2 == IF text.div = 3 THEN FloatSub(s1, 300)
                   ELSE IF text.div = 1 THEN FloatSub(s1, 100) ELSE s1
             s3 == IF text.garbled THEN FloatSub(s2, 200) ELSE s2
         IN  Max(0, Min(1000, s3))

\* ------------------------------------------------- the detector on strings
\* A string is the sequence of its characters. The operators below are the
\* str and list operations RepetitionDetector.detect is written with.

\* str.split(): the maximal runs of characters that are no blanks
RECURSIVE SplitFrom(_, _, _, _)
SplitFrom(text, i, word, words) ==
    LET closed == IF word = <<>> THEN words ELSE Append(words, word)
    IN  IF i > Len(text) THEN closed
        ELSE IF text[i] = " " THEN SplitFrom(text, i + 1, <<>>, closed)
        ELSE SplitFrom(text, i + 1, Append(word, text[i]), words)

split(text) == SplitFrom(text, 1, <<>>, <<>>)

\* ' '.join(words)
RECURSIVE join(_)
join(words) ==
    IF words = <<>> THEN <<>>
    ELSE IF Len(words) = 1 THEN words[1]
    ELSE words[1] \o <<" ">> \o join(Tail(words))

\* seq[a:b] of Python for 0 <= a and 0 <= b
PySlice(seq, a, b) == SubSeq(seq, a + 1, Min(b, Len(seq)))

\* str.count(sub) from position i on: occurrences that do not overlap
RECURSIVE CountFrom(_, _, _)
CountFrom(text, sub, i) ==
    IF i + Len(sub) - 1 > Len(text) THEN 0
    ELSE IF SubSeq(text, i, i + Len(sub) - 1) = sub
    THEN 1 + CountFrom(text, sub, i + Len(sub))
    ELSE CountFrom(text, sub, i + 1)

count(text, sub) ==
    IF sub = <<>> THEN Len(text) + 1 ELSE CountFrom(text, sub, 1)

\* what detect returns: (has_repetition, repeated_phrase), the phrase of
\* (False, None) being the empty sequence
Detected(phrase) == [has_repetition |-> TRUE, repeated |-> phrase]
NotDetected == [has_repetition |-> FALSE, repeated |-> <<>>]

\* "for n in [4, 3, 5]"
NGRAM_LENGTHS == <<4, 3, 5>>

\* Strategy 1, from the k-th n-gram length and start offset i on: the first
\* n-gram that occurs twice or more in the words after it
RECURSIVE RepeatedNgram(_, _, _)
RepeatedNgram(words, k, i) ==
    IF k > Len(NGRAM_LENGTHS) THEN NotDetected
    ELSE LET n == NGRAM_LENGTHS[k]
         IN  IF i >= Len(words) - n * 3 THEN RepeatedNgram(words, k + 1, 0)
             ELSE LET phrase == join(PySlice(words, i, i + n))
                      remaining == join(PySlice(words, i + n, Len(words)))
                  IN  IF count(remaining, phrase) >= 2
                      THEN Detected(PySlice(phrase, 0, 50))
                      ELSE RepeatedNgram(words, k, i + 1)

\* Strategy 2, from offset i on (in steps of 5): a 15-character chunk of the
\* last quarter that occurs three times or more in it
RECURSIVE LoopInLastQuarter(_, _)
LoopInLastQuarter(last_quarter, i) ==
    IF i >= Min(Len(last_quarter) - 30, 100) THEN NotDetected
    ELSE LET chunk == PySlice(last_quarter, i, i + 15)
         IN  IF count(last_quarter, chunk) >= 3 THEN Detected(chunk)
             ELSE LoopInLastQuarter(last_quarter, i + 5)

\* Strategy 3, from the k-th length of <<30, 40, 50>> on: the start of the
\* last 50 characters found in the 100 before them
RECURSIVE PartialRepeat(_, _, _)
PartialRepeat(last_50, prev_100, k) ==
    IF k > 3 THEN NotDetected
    ELSE LET length == <<30, 40, 50>>[k]
             chunk == PySlice(last_50, 0, length)
         IN  IF length <= Len(last_50) /\ count(prev_100, chunk) >= 1
             THEN Detected(PySlice(chunk, 0, 30))
             ELSE PartialRepeat(last_50, prev_100, k + 1)

\* RepetitionDetector.detect(text) on the string itself
RepetitionDetector_detect(text) ==
    IF Len(text) < 50 THEN NotDetected
    ELSE LET words == split(text) IN
    IF Len(words) < 12 THEN NotDetected
    ELSE LET by_ngram == RepeatedNgram(words, 1, 0) IN
    IF by_ngram.has_repetition THEN by_ngram
    ELSE LET last_quarter == PySlice(text, (Len(text) * 3) \div 4, Len(text))
             by_loop == IF Len(last_quarter) > 40
                        THEN LoopInLastQuarter(last_quarter, 0)
                        ELSE NotDetected
         IN
    IF by_loop.has_repetition THEN by_loop
    ELSE IF Len(text) > 100
    THEN PartialRepeat(PySlice(text, Len(text) - 50, Len(text)),
                       PySlice(text, Max(Len(text) - 150, 0), Len(text) - 50),
                       1)
    ELSE NotDetected

\* ----------------------------------------------------------- conditioning
\* AudioPreprocessor.MAX_FILE_SIZE_MB, and the bytes of a megabyte
MAX_FILE_SIZE_MB == 25
MB == 1024 * 1024

WHISPER_NATIVE_FORMATS == {"mp3", "mp4", "m4a", "wav", "webm", "mpeg", "mpga"}

\* the path transcribe is called with, and the one NamedTemporaryFile makes
InputPath == "audio_path"
TempPath == "tmp.mp3"

\* An audio file on disk: whether it exists, its size in bytes, whether its
\* path has a dot and what follows the last one, and what pydub finds in it:
\* len(audio) in milliseconds, audio.channels, audio.dBFS (whole decibels).
AudioFile(exists, size, has_dot, suffix, length_ms, channels, dBFS) ==
    [exists |-> exists, size |-> size, has_dot |-> has_dot, suffix |-> suffix,
     length_ms |-> length_ms, channels |-> channels, dBFS |-> dBFS]

\* str.lower() on the suffixes that occur
lower(s) ==
    CASE s = "MP3" -> "mp3"
      [] s = "OGG" -> "ogg"
      [] OTHER -> s

\* "input_path.rsplit('.', 1)[-1].lower() if '.' in input_path else ''"
file_ext(f) == IF f.has_dot THEN lower(f.suffix) ELSE ""

\* how the pydub calls of one prepare_audio go: all fine, from_file raises,
\* or export raises
ConvOutcomes == {"ok", "load_raises", "export_raises"}

\* "Reason 1: File too large": file_size_mb > MAX_FILE_SIZE_MB
TooLarge(f) == f.size > MAX_FILE_SIZE_MB * MB

\* NeedsProcessing that also takes a file of exactly the maximum size
NeedsProcessing_AtCap(f) ==
    \/ f.size >= MAX_FILE_SIZE_MB * MB
    \/ file_ext(f) \notin WHISPER_NATIVE_FORMATS

\* needs_processing
NeedsProcessing(f) ==
    \/ TooLarge(f)
    \/ file_ext(f) \notin WHISPER_NATIVE_FORMATS

\* the bitrate of the export, in kbps: int(target_size_bits / duration_seconds
\* / 1000) clamped to 64..128 for a file over the maximum size, else 128
TargetBitrate(f) ==
    IF TooLarge(f)
    THEN Max(64, Min(128, (20 * 1024 * 1024 * 8) \div f.length_ms))
    ELSE 128

\* Fallback raising the exception again
Fallback_Reraises(metadata, e) ==
    [raised |-> e, path |-> None, metadata |-> Nothing, created |-> {TempPath}]

\* prepare_audio's except clause, reached with the temporary file allocated:
\* "metadata['error'] = str(e)", "return input_path, metadata"
Fallback(metadata, e) ==
    [raised |-> None, path |-> InputPath,
     metadata |-> [error |-> e] @@ metadata, created |-> {TempPath}]

\* AudioPreprocessor.prepare_audio(input_path): the exception raised if any,
\* the path and the metadata returned, and the files it created on disk
prepare_audio(f, conv) ==
    LET steps0 == (IF TooLarge(f) THEN <<"compress_size">> ELSE <<>>)
                  \o (IF file_ext(f) \notin WHISPER_NATIVE_FORMATS
                      THEN <<"convert_format">> ELSE <<>>)
        base == [original_path |-> InputPath, was_processed |-> FALSE,
                 processing_steps |-> steps0, original_size |-> f.size,
                 original_format |-> file_ext(f)]
        loaded == [duration_ms |-> f.length_ms,
                   original_channels |-> f.channels,
                   original_dbfs |-> f.dBFS] @@ base
        steps1 == steps0
                  \o (IF f.dBFS < -30 THEN <<"normalize_volume">> ELSE <<>>)
                  \o (IF f.channels > 1 THEN <<"convert_to_mono">> ELSE <<>>)
        normalized == (IF f.dBFS < -30
                       THEN [normalized_from_dbfs |-> f.dBFS] ELSE <<>>)
                      @@ [processing_steps |-> steps1] @@ loaded
    IN  IF ~f.exists
        THEN [raised |-> "FileNotFoundError", path |-> None,
              metadata |-> Nothing, created |-> {}]
        ELSE IF ~NeedsProcessing(f)
        THEN [raised |-> None, path |-> InputPath, metadata |-> base,
              created |-> {}]
        ELSE IF conv = "load_raises"
        THEN Fallback(base, "CouldntDecodeError")
        ELSE IF TooLarge(f) /\ f.length_ms = 0
        THEN Fallback(normalized, "ZeroDivisionError")
        ELSE LET encoded == [output_bitrate |-> TargetBitrate(f)] @@ normalized
             IN  IF conv = "export_raises"
                 THEN Fallback(encoded, "export failed")
                 ELSE [raised |-> None, path |-> TempPath,
                       metadata |-> [was_processed |-> TRUE] @@ encoded,
                       created |-> {TempPath}]

\* the duration of transcribe, in ms: prep_metadata.get('duration_seconds',
\* 0), and when that is 0 the length of the file at processed_path, or 60 s
\* when that file cannot be loaded
DEFAULT_DURATION_MS == 60 * 1000

Duration(f, conv, prep) ==
    LET from_metadata == IF "duration_ms" \in DOMAIN prep.metadata
                         THEN prep.metadata.duration_ms ELSE 0
    IN  IF from_metadata # 0 THEN from_metadata
        ELSE IF prep.path = InputPath /\ conv = "load_raises"
        THEN DEFAULT_DURATION_MS
        ELSE f.length_ms

\* a finally clause that removes nothing
Cleanup_Keeps(path, files) == files

\* the finally clause of transcribe: "if processed_path and processed_path !=
\* audio_path: os.remove(processed_path)", on the files on disk
Cleanup(path, files) ==
    IF path # None /\ path # InputPath THEN files \ {path} ELSE files

\* ---------------------------------------------------------------- state
VARIABLES
    \* ProductionWhisperService.transcribe, one invocation
    max_retries, temperatures_to_try, drv_pc, attempts, best_result,
    best_score, warnings, result, processed_path, prep_metadata, duration,
    \* the temporary files on disk
    temp_files,
    \* observers of that invocation
    calls, cands, outcomes, whisper_paths,
    \* the transcriptions table and the recordings' status column
    transcriptions, recording_status,
    \* create_transcription requests: position, request.recording_id, the
    \* Transcription object added to the session, what the request answered
    pc, rid, pending, returned, http_error,
    \* observers of the requests
    api_calls, existed_at_call, existed_at_service_call, lost_race,
    driver_result,
    \* AudioPreprocessor.prepare_audio on its own: the file it is given and
    \* what it handed back
    audio, conditioned,
    \* the summaries table, and the last response of the language model that
    \* a summary generation for a recording received
    summaries, summary_response,
    \* RepetitionDetector.detect on its own: the words a text is built from,
    \* the text, what detect returned
    det_words, det_text, det_result,
    \* the retention columns of the recordings table as committed, the same
    \* columns on the Recording objects of the cleanup job's session, and the
    \* recordings whose audio file is on disk
    rec_rows, rec_session, audio_files,
    \* AudioRetentionService.cleanup_expired_audio, one run
    cleanup_pc, cleanup_now, expired_recordings, deleted_count, failed_count,
    cleanup_result,
    \* observers of that run: the committed rows and the files when it began
    rows_at_start, files_at_start,
    \* UsageTrackingService.reset_monthly_usage, one call: the usage columns
    \* of the user's row as committed, the same columns on the session's User
    \* object, the date of datetime.utcnow(), what the call answered, and the
    \* committed row when it began
    user_row, user_session, usage_now, reset_result, user_at_start,
    \* the recording lifecycle: the ids with a row in the recordings table,
    \* the user_id of each row (one user per subscription tier, None for an
    \* anonymous upload), and the days that datetime.utcnow() has counted
    recordings, rec_user, clock

drv_vars == <<max_retries, temperatures_to_try, drv_pc, attempts, best_result,
              best_score, warnings, result, processed_path, prep_metadata,
              duration, temp_files, calls, cands, outcomes, whisper_paths>>

req_vars == <<transcriptions, recording_status, pc, rid, pending, returned,
              http_error, api_calls, existed_at_call, existed_at_service_call,
              lost_race, driver_result>>

cond_vars == <<audio, conditioned>>

sum_vars == <<summaries, summary_response>>

det_vars == <<det_words, det_text, det_result>>

ret_vars == <<rec_rows, rec_session, audio_files, cleanup_pc, cleanup_now,
              expired_recordings, deleted_count, failed_count, cleanup_result,
              rows_at_start, files_at_start>>

use_vars == <<user_row, user_session, usage_now, reset_result, user_at_start>>

life_vars == <<recordings, rec_user, clock>>

vars == <<drv_vars, req_vars, cond_vars, sum_vars, det_vars, ret_vars, use_vars,
          life_vars>>

\* what a step of the driver, of a request, of prepare_audio and of a summary
\* generation leaves alone
beside_driver ==
    <<req_vars, cond_vars, sum_vars, det_vars, ret_vars, use_vars, life_vars>>
beside_requests ==
    <<drv_vars, cond_vars, sum_vars, det_vars, ret_vars, use_vars, life_vars>>
beside_conditioner ==
    <<drv_vars, req_vars, sum_vars, det_vars, ret_vars, use_vars, life_vars>>
beside_summaries ==
    <<drv_vars, req_vars, cond_vars, det_vars, ret_vars, use_vars, life_vars>>
beside_detector ==
    <<drv_vars, req_vars, cond_vars, sum_vars, ret_vars, use_vars, life_vars>>
beside_retention ==
    <<drv_vars, req_vars, cond_vars, sum_vars, det_vars, use_vars, life_vars>>
beside_usage ==
    <<drv_vars, req_vars, cond_vars, sum_vars, det_vars, ret_vars, life_vars>>
beside_lifecycle == <<drv_vars, req_vars, cond_vars, sum_vars, det_vars, use_vars>>

\* an entry of warnings: one about an attempt names its temperature
Warn(kind, temp) == [kind |-> kind, temp |-> temp]
Note(kind) == [kind |-> kind]
\* "Audio preprocessed: <steps>"
Preprocessed(steps) == [kind |-> "preprocessed", steps |-> steps]

\* TranscriptionResult
TranscriptionResult(transcript, language, quality, confidence, temp, att, warns, error) ==
    [transcript |-> transcript, language |-> language, quality |-> quality,
     confidence_score |-> confidence, temperature_used |-> temp,
     attempts |-> att, warnings |-> warns, error |-> error]

\* success that is true of every result
success_Always(r) == TRUE

\* TranscriptionResult.success
success(r) == r.transcript # None /\ r.quality # "FAILED"

\* QualityLevel with the FAIR threshold excluded
QualityLevel_FairAbove(score, has_rep) ==
    IF score >= 900 /\ ~has_rep THEN "EXCELLENT"
    ELSE IF score >= 700 /\ ~has_rep THEN "GOOD"
    ELSE IF score > 500 THEN "FAIR"
    ELSE "POOR"

\* the quality level of a promoted candidate
QualityLevel(score, has_rep) ==
    IF score >= 900 /\ ~has_rep THEN "EXCELLENT"
    ELSE IF score >= 700 /\ ~has_rep THEN "GOOD"
    ELSE IF score >= 500 THEN "FAIR"
    ELSE "POOR"

\* Finalize, reporting a run without any candidate as a POOR transcript
Finalize_FailedAsPoor(best, score, att, warns) ==
    IF best = Nothing
    THEN TranscriptionResult(None, None, "POOR", 0, 0, att, warns,
                             "All transcription attempts failed")
    ELSE TranscriptionResult(best.transcript, best.language,
                             QualityLevel(score, best.has_repetition), score,
                             best.temperature, att, warns, None)

\* Finalize, counting the attempts from zero
Finalize_AttemptsFromZero(best, score, att, warns) ==
    IF best = Nothing
    THEN TranscriptionResult(None, None, "FAILED", 0, 0, att - 1, warns,
                             "All transcription attempts failed")
    ELSE TranscriptionResult(best.transcript, best.language,
                             QualityLevel(score, best.has_repetition), score,
                             best.temperature, att - 1, warns, None)

\* Step 3 of transcribe: the result after the attempt loop
Finalize(best, score, att, warns) ==
    IF best = Nothing
    THEN TranscriptionResult(None, None, "FAILED", 0, 0, att, warns,
                             "All transcription attempts failed")
    ELSE LET q  == QualityLevel(score, best.has_repetition)
             w1 == IF q = "FAIR" THEN Append(warns, Note("fair"))
                   ELSE IF q = "POOR" THEN Append(warns, Note("poor"))
                   ELSE warns
             w2 == IF best.has_repetition
                   THEN Append(w1, Note("repetition_in_best")) ELSE w1
         IN  TranscriptionResult(best.transcript, best.language, q, score,
                                 best.temperature, att, w2, None)

\* the outer except clause of transcribe
OuterFailure(warns, msg) ==
    TranscriptionResult(None, None, "FAILED", 0, 0, 0, warns, msg)

\* AcceptEarly with the threshold excluded
AcceptEarly_Strict(quality_score, has_repetition) ==
    quality_score > 800 /\ ~has_repetition

\* "if quality_score >= 0.8 and not has_repetition: break"
AcceptEarly(quality_score, has_repetition) ==
    quality_score >= 800 /\ ~has_repetition

\* "if quality_score > best_score"
IsBetter(quality_score, best) == quality_score > best

\* AbortsOn that ends the attempt loop on every exception
AbortsOn_Always(err) == TRUE

\* whether an exception raised by the capability call ends the attempt loop:
\* the inner except clause catches every Exception and goes on with the next
\* temperature, whatever the error is
AbortsOn(err) == FALSE

\* what one await of _call_whisper can bring back
TextOutcome(text) == [kind |-> "text", text |-> text, err |-> None]
ErrorOutcome(err) == [kind |-> "error", text |-> Nothing, err |-> err]

\* the candidate built from a returned text
Candidate(text, temp) ==
    [transcript |-> text.name, language |-> text.language, temperature |-> temp,
     quality_score |-> calculate_quality_score(text),
     has_repetition |-> detect(text)]

\* the body of one loop iteration after the await: the new best_result,
\* best_score and warnings, and whether the loop is left (break)
Evaluate(best, score, warns, temp, out) ==
    IF out.kind = "error"
    THEN [best_result |-> best, best_score |-> score,
          warnings |-> Append(warns, Warn("api_error_" \o out.err, temp)),
          stop |-> AbortsOn(out.err)]
    ELSE LET cand   == Candidate(out.text, temp)
             better == IsBetter(cand.quality_score, score)
             stop   == AcceptEarly(cand.quality_score, cand.has_repetition)
         IN  [best_result |-> IF better THEN cand ELSE best,
              best_score  |-> IF better THEN cand.quality_score ELSE score,
              warnings    |-> IF ~stop /\ cand.has_repetition
                              THEN Append(warns, Warn("repetition", temp))
                              ELSE warns,
              stop        |-> stop]

Tasks == 1..NumTasks
RecIds == 1..NumRecordings

\* the state of the requests before any request is made
RequestsIdle ==
    /\ transcriptions = {}
    /\ recording_status = [r \in RecIds |-> "PENDING"]
    /\ pc = [t \in Tasks |-> "idle"]
    /\ rid = [t \in Tasks |-> 0]
    /\ pending = [t \in Tasks |-> Nothing]
    /\ returned = [t \in Tasks |-> Nothing]
    /\ http_error = [t \in Tasks |-> None]
    /\ api_calls = [t \in Tasks |-> 0]
    /\ existed_at_call = [t \in Tasks |-> Nothing]
    /\ existed_at_service_call = [t \in Tasks |-> Nothing]
    /\ lost_race = [t \in Tasks |-> FALSE]
    /\ driver_result = [t \in Tasks |-> Nothing]

\* prepare_audio not called
ConditionerIdle ==
    /\ audio = Nothing
    /\ conditioned = Nothing

\* no summary generated
SummariesIdle ==
    /\ summaries = {}
    /\ summary_response = [r \in RecIds |-> Nothing]

\* detect not called
DetectorIdle ==
    /\ det_words = <<>>
    /\ det_text = <<>>
    /\ det_result = Nothing

\* the NULL of the nullable column audio_delete_at, beside the times 0, 1, ...
NULL == 0 - 1

\* the retention columns of a Recording: audio_delete_at (NULL or a time),
\* can_regenerate, audio_retention_enabled
RetentionRow(delete_at, regenerate, enabled) ==
    [audio_delete_at |-> delete_at, can_regenerate |-> regenerate,
     audio_retention_enabled |-> enabled]

\* the column defaults of a new Recording
NoPolicy == RetentionRow(NULL, FALSE, FALSE)

\* cleanup_expired_audio not called
CleanupIdle ==
    /\ cleanup_pc = "idle"
    /\ cleanup_now = 0
    /\ expired_recordings = <<>>
    /\ deleted_count = 0
    /\ failed_count = 0
    /\ cleanup_result = Nothing
    /\ rows_at_start = <<>>
    /\ files_at_start = {}

\* no recording has a retention policy and the cleanup job is not running
RetentionIdle ==
    /\ rec_rows = [r \in RecIds |-> NoPolicy]
    /\ rec_session = rec_rows
    /\ audio_files = {}
    /\ CleanupIdle

\* no user and reset_monthly_usage not called
UsageIdle ==
    /\ user_row = Nothing
    /\ user_session = Nothing
    /\ usage_now = Nothing
    /\ reset_result = Nothing
    /\ user_at_start = Nothing

\* no recording was uploaded
LifecycleIdle ==
    /\ recordings = {}
    /\ rec_user = [r \in RecIds |-> None]
    /\ clock = 0

\* the state of the driver before transcribe is called
DriverIdle ==
    /\ temperatures_to_try = <<>>
    /\ drv_pc = "start"
    /\ attempts = 0
    /\ best_result = Nothing
    /\ best_score = 0
    /\ warnings = <<>>
    /\ result = Nothing
    /\ processed_path = None
    /\ prep_metadata = Nothing
    /\ duration = 0
    /\ temp_files = {}
    /\ calls = 0
    /\ cands = <<>>
    /\ outcomes = <<>>
    /\ whisper_paths = {}

DriverInit ==
    /\ max_retries \in (0 - NegRetries)..MaxRetries
    /\ DriverIdle
    /\ RequestsIdle
    /\ ConditionerIdle
    /\ SummariesIdle
    /\ DetectorIdle
    /\ RetentionIdle
    /\ UsageIdle
    /\ LifecycleIdle

\* the files transcribe is called on: one that needs no processing, one in
\* a format the capability does not take, one that is not there
DriverFiles ==
    { AudioFile(TRUE, 2 * MB, TRUE, "mp3", 60000, 1, -12),
      AudioFile(TRUE, 2 * MB, TRUE, "ogg", 60000, 2, -12),
      AudioFile(FALSE, 0, TRUE, "mp3", 0, 1, 0) }

\* Step 1 of transcribe, up to the first iteration of the attempt loop:
\* await prepare_audio(audio_path), whose exception the outer except clause
\* turns into a failed result; the finally clause runs when transcribe ends.
PrepareOn(files) ==
    /\ drv_pc = "start"
    /\ \E f \in files, conv \in ConvOutcomes :
         LET prep == prepare_audio(f, conv)
             disk == temp_files \cup prep.created
         IN  IF prep.raised # None
             THEN /\ drv_pc' = "done"
                  /\ result' = OuterFailure(warnings, prep.raised)
                  /\ temp_files' = Cleanup(processed_path, disk)
                  /\ UNCHANGED <<temperatures_to_try, warnings, best_result,
                                 best_score, processed_path, prep_metadata,
                                 duration>>
             ELSE LET w == IF prep.metadata.was_processed
                           THEN Append(warnings,
                                    Preprocessed(prep.metadata.processing_steps))
                           ELSE warnings
                      temps == PySlicePrefix(TEMPERATURE_SEQUENCE, max_retries)
                  IN  /\ processed_path' = prep.path
                      /\ prep_metadata' = prep.metadata
                      /\ duration' = Duration(f, conv, prep)
                      /\ temperatures_to_try' = temps
                      /\ best_result' = Nothing
                      /\ best_score' = 0
                      /\ warnings' = w
                      /\ IF temps = <<>>
                         THEN /\ drv_pc' = "done"
                              /\ result' = Finalize(Nothing, 0, 0, w)
                              /\ temp_files' = Cleanup(prep.path, disk)
                         ELSE /\ drv_pc' = "loop"
                              /\ result' = result
                              /\ temp_files' = disk
    /\ UNCHANGED <<max_retries, attempts, calls, cands, outcomes, whisper_paths>>
    /\ UNCHANGED beside_driver

Prepare == PrepareOn(DriverFiles)

\* top of a loop iteration: attempts += 1, then await self._call_whisper(...)
CallWhisper ==
    /\ drv_pc = "loop"
    /\ attempts < Len(temperatures_to_try)
    /\ attempts' = attempts + 1
    /\ calls' = calls + 1
    /\ drv_pc' = "await"
    /\ whisper_paths' = whisper_paths \cup {processed_path}
    /\ UNCHANGED <<max_retries, temperatures_to_try, best_result, best_score,
                   warnings, result, processed_path, prep_metadata, duration,
                   temp_files, cands, outcomes>>
    /\ UNCHANGED beside_driver

\* the await returns or raises; the rest of the iteration runs, and when the
\* loop has ended (break, or no temperature left) Step 3 builds the result
WhisperAnswers(out) ==
    /\ drv_pc = "await"
    /\ LET e == Evaluate(best_result, best_score, warnings,
                         temperatures_to_try[attempts], out)
       IN  /\ best_result' = e.best_result
           /\ best_score' = e.best_score
           /\ IF e.stop \/ attempts = Len(temperatures_to_try)
              THEN /\ drv_pc' = "done"
                   /\ result' = Finalize(e.best_result, e.best_score, attempts,
                                         e.warnings)
                   /\ warnings' = result'.warnings
                   /\ temp_files' = Cleanup(processed_path, temp_files)
              ELSE /\ drv_pc' = "loop"
                   /\ result' = result
                   /\ warnings' = e.warnings
                   /\ temp_files' = temp_files
           /\ cands' = IF out.kind = "text"
                       THEN Append(cands, [attempt_index |-> attempts,
                                           cand |-> Candidate(out.text, temperatures_to_try[attempts])])
                       ELSE cands
           /\ outcomes' = Append(outcomes,
                                 IF out.kind = "error" THEN out.err
                                 ELSE IF e.stop THEN "accept" ELSE "text")
    /\ UNCHANGED <<max_retries, temperatures_to_try, attempts, calls,
                   processed_path, prep_metadata, duration, whisper_paths>>
    /\ UNCHANGED beside_driver

\* the capability returns (transcript, detected_lang)
WhisperReturns == \E text \in Texts : WhisperAnswers(TextOutcome(text))

\* the capability call raises
WhisperRaises == \E err \in ErrKinds : WhisperAnswers(ErrorOutcome(err))

DriverNext == Prepare \/ CallWhisper \/ WhisperReturns \/ WhisperRaises

DriverSpec == DriverInit /\ [][DriverNext]_vars


\* -------------------------------------------------- prepare_audio, alone
\* sizes in bytes around the 25 MB maximum
FileSizes == {2 * MB, 25 * MB, 25 * MB + 1, 30 * MB}

\* what follows the last dot of the path ("" with has_dot FALSE: no dot)
Suffixes == {"mp3", "MP3", "wav", "ogg"}

\* len(audio) in milliseconds: empty, a second, and the lengths around which
\* the clamped bitrate changes
LengthsMs == {0, 1000, 1310720, 1310721, 2621440, 3276799, 3276800, 3600000}

\* audio.dBFS around the "extremely quiet" mark
Loudness == {-12, -30, -31}

Files ==
    { AudioFile(TRUE, size, has_dot, suffix, len, ch, db) :
          size \in FileSizes, has_dot \in BOOLEAN, suffix \in Suffixes,
          len \in LengthsMs, ch \in {1, 2}, db \in Loudness }
    \cup { AudioFile(FALSE, 0, TRUE, "mp3", 0, 1, 0) }

ConditionerInit ==
    /\ audio \in Files
    /\ conditioned = Nothing
    /\ max_retries = PRODUCTION_MAX_RETRIES
    /\ DriverIdle
    /\ RequestsIdle
    /\ SummariesIdle
    /\ DetectorIdle
    /\ RetentionIdle
    /\ UsageIdle
    /\ LifecycleIdle

\* await AudioPreprocessor.prepare_audio(input_path)
PrepareAudio ==
    /\ conditioned = Nothing
    /\ \E conv \in ConvOutcomes : conditioned' = prepare_audio(audio, conv)
    /\ audio' = audio
    /\ UNCHANGED beside_conditioner

ConditionerNext == PrepareAudio

ConditionerSpec == ConditionerInit /\ [][ConditionerNext]_vars

\* ------------------------------------------- transcribe as one computation
\* The attempt loop over the answers outs[1], outs[2], ... of the capability,
\* from attempt n on: the result and the number of capability calls made.
RECURSIVE RunLoop(_, _, _, _, _, _)
RunLoop(temps, outs, n, best, score, warns) ==
    IF n > Len(temps)
    THEN [result |-> Finalize(best, score, n - 1, warns), calls |-> n - 1]
    ELSE LET e == Evaluate(best, score, warns, temps[n], outs[n])
         IN  IF e.stop
             THEN [result |-> Finalize(e.best_result, e.best_score, n, e.warnings),
                   calls |-> n]
             ELSE RunLoop(temps, outs, n + 1, e.best_result, e.best_score,
                          e.warnings)

\* ProductionWhisperService.transcribe(audio_path, language, max_retries) for a
\* file that exists or not and the capability's answers outs
transcribe(file_exists, retries, outs) ==
    IF ~file_exists
    THEN [result |-> OuterFailure(<<>>, "FileNotFoundError"), calls |-> 0]
    ELSE RunLoop(PySlicePrefix(TEMPERATURE_SEQUENCE, retries), outs, 1,
                 Nothing, 0, <<>>)

\* the capability's answers to the attempts of a request's invocation
RequestOutcomes ==
    { TextOutcome(Text("clean", FALSE, FALSE, 0, FALSE)),
      TextOutcome(Text("loop", FALSE, TRUE, 0, FALSE)),
      ErrorOutcome("transient") }

\* one answer to the first attempt and one to every retry
RequestRuns ==
    { [n \in 1..Len(TEMPERATURE_SEQUENCE) |-> IF n = 1 THEN first ELSE retry] :
          first \in RequestOutcomes, retry \in RequestOutcomes }

\* what production_service.transcribe(audio_path, None, max_retries=5) can
\* hand back to transcribe_audio_production
RequestResults ==
    { transcribe(file_exists, PRODUCTION_MAX_RETRIES, outs) :
          file_exists \in BOOLEAN, outs \in RequestRuns }

\* ----------------------------------------------------- the requests' steps
\* select(Transcription).filter(recording_id == r), scalar_one_or_none()
SelectByRecording(r) ==
    IF \E row \in transcriptions : row.recording_id = r
    THEN CHOOSE row \in transcriptions : row.recording_id = r
    ELSE Nothing

\* Transcription(recording_id, text, language, confidence, provider); the
\* uuid4 primary key is the one of the request that builds the object
Transcription(t, r, res) ==
    [id |-> t, recording_id |-> r, text |-> res.transcript,
     language |-> res.language, confidence |-> res.confidence_score,
     provider |-> "whisper-production"]

\* UniqueViolation for a column declared without unique=True
UniqueViolation_Off(row) == FALSE

\* recording_id is declared unique=True: a commit that would add a second row
\* for a recording is rejected
UniqueViolation(row) ==
    \E other \in transcriptions : other.recording_id = row.recording_id

\* the phrases of str(db_error).lower() for a rejected commit, by database:
\* PostgreSQL "duplicate key value violates unique constraint ...", SQLite
\* "UNIQUE constraint failed: ..."
Dialects == {"postgresql", "sqlite"}
IntegrityErrorText(dialect) ==
    IF dialect = "postgresql" THEN {"duplicate key", "unique constraint"}
    ELSE {"unique constraint"}

\* IsDuplicateError matching neither phrase
IsDuplicateError_Unrecognised(phrases) == FALSE

\* '"duplicate key" in str(db_error).lower() or "unique constraint" in ...'
IsDuplicateError(phrases) ==
    "duplicate key" \in phrases \/ "unique constraint" \in phrases

Goto(t, where) == pc' = [pc EXCEPT ![t] = where]

\* a client posts /create for a recording
Request(t, r) ==
    /\ pc[t] = "idle"
    /\ rid' = [rid EXCEPT ![t] = r]
    /\ existed_at_call' = [existed_at_call EXCEPT ![t] = SelectByRecording(r)]
    /\ Goto(t, "ep_begin")
    /\ UNCHANGED <<transcriptions, recording_status, pending, returned,
                   http_error, api_calls, existed_at_service_call, lost_race,
                   driver_result>>
    /\ UNCHANGED beside_requests

\* create_transcription: the recording is looked up and, when it has a user,
\* check_usage_limit gates the request (403) before anything else
EpBegin(t) ==
    /\ pc[t] = "ep_begin"
    /\ \E limit_exceeded \in BOOLEAN :
         IF limit_exceeded
         THEN /\ http_error' = [http_error EXCEPT ![t] = "403"]
              /\ Goto(t, "done")
         ELSE /\ http_error' = http_error
              /\ Goto(t, "ep_select")
    /\ UNCHANGED <<transcriptions, recording_status, rid, pending, returned,
                   api_calls, existed_at_call, existed_at_service_call, lost_race,
                   driver_result>>
    /\ UNCHANGED beside_requests

\* create_transcription: "Check if transcription already exists": an existing
\* row is returned (the recording marked COMPLETED)
EpSelectExisting(t) ==
    /\ pc[t] = "ep_select"
    /\ LET existing == SelectByRecording(rid[t])
       IN  IF existing # Nothing
           THEN /\ recording_status' = [recording_status EXCEPT ![rid[t]] = "COMPLETED"]
                /\ returned' = [returned EXCEPT ![t] = existing]
                /\ Goto(t, "done")
           ELSE /\ UNCHANGED <<recording_status, returned>>
                /\ Goto(t, "ep_mark")
    /\ UNCHANGED <<transcriptions, rid, pending, http_error, api_calls,
                   existed_at_call, existed_at_service_call, lost_race,
                   driver_result>>
    /\ UNCHANGED beside_requests

\* create_transcription: status PROCESSING is committed and
\* TranscriptionService().transcribe_audio(...) is called
EpMarkProcessing(t) ==
    /\ pc[t] = "ep_mark"
    /\ recording_status' = [recording_status EXCEPT ![rid[t]] = "PROCESSING"]
    /\ existed_at_service_call' =
           [existed_at_service_call EXCEPT ![t] = SelectByRecording(rid[t])]
    /\ Goto(t, "svc_check")
    /\ UNCHANGED <<transcriptions, rid, pending, returned, http_error,
                   api_calls, existed_at_call, lost_race,
                   driver_result>>
    /\ UNCHANGED beside_requests

\* CheckExisting that does not look the recording up
CheckExisting_Skipped(t, where, next) ==
    /\ pc[t] = where
    /\ Goto(t, next)
    /\ UNCHANGED <<transcriptions, recording_status, rid, pending, returned,
                   http_error, api_calls, existed_at_call,
                   existed_at_service_call, lost_race,
                   driver_result>>
    /\ UNCHANGED beside_requests

\* the "already exists" check that opens transcribe_audio (where = "svc_check",
\* then transcribe_audio_production follows) and transcribe_audio_production
\* (where = "prod_check", then the driver follows)
CheckExisting(t, where, next) ==
    /\ pc[t] = where
    /\ LET existing == SelectByRecording(rid[t])
       IN  IF existing # Nothing
           THEN /\ returned' = [returned EXCEPT ![t] = existing]
                /\ Goto(t, "ep_finish")
           ELSE /\ returned' = returned
                /\ Goto(t, next)
    /\ UNCHANGED <<transcriptions, recording_status, rid, pending, http_error,
                   api_calls, existed_at_call, existed_at_service_call, lost_race,
                   driver_result>>
    /\ UNCHANGED beside_requests

SvcCheck(t) == CheckExisting(t, "svc_check", "prod_check")
ProdCheck(t) == CheckExisting(t, "prod_check", "driver")

\* transcribe_audio_production: await production_service.transcribe(...,
\* max_retries=5); a result without success raises, a good one becomes a
\* Transcription object added to the session
DriverReturned(t, res, ncalls) ==
    /\ pc[t] = "driver"
    /\ api_calls' = [api_calls EXCEPT ![t] = @ + ncalls]
    /\ driver_result' = [driver_result EXCEPT ![t] =
                             [transcript |-> res.transcript,
                              quality |-> res.quality]]
    /\ IF success(res)
       THEN /\ pending' = [pending EXCEPT ![t] =
                              Transcription(t, rid[t], res)]
            /\ Goto(t, "commit")
       ELSE /\ pending' = pending
            /\ Goto(t, "ep_fail")
    /\ UNCHANGED <<transcriptions, recording_status, rid, returned, http_error,
                   existed_at_call, existed_at_service_call, lost_race>>
    /\ UNCHANGED beside_requests

RunDriver(t) ==
    \E run \in RequestResults : DriverReturned(t, run.result, run.calls)

\* transcribe_audio_production: await db.commit(). The row is stored, or the
\* database rejects it; a rejection recognised as a duplicate is rolled back
\* and the existing row read next, any other one is raised again.
Commit(t) ==
    /\ pc[t] = "commit"
    /\ IF UniqueViolation(pending[t])
       THEN /\ \E dialect \in Dialects :
                 IF IsDuplicateError(IntegrityErrorText(dialect))
                 THEN Goto(t, "reread")
                 ELSE Goto(t, "ep_fail")
            /\ lost_race' = [lost_race EXCEPT ![t] = TRUE]
            /\ UNCHANGED <<transcriptions, returned>>
       ELSE /\ transcriptions' = transcriptions \cup {pending[t]}
            /\ returned' = [returned EXCEPT ![t] = pending[t]]
            /\ lost_race' = lost_race
            /\ Goto(t, "ep_finish")
    /\ UNCHANGED <<recording_status, rid, pending, http_error, api_calls,
                   existed_at_call, existed_at_service_call,
                   driver_result>>
    /\ UNCHANGED beside_requests

\* transcribe_audio_production, after the rollback: the existing row is
\* fetched and returned; with none found the error is raised again
Reread(t) ==
    /\ pc[t] = "reread"
    /\ LET existing == SelectByRecording(rid[t])
       IN  IF existing # Nothing
           THEN /\ returned' = [returned EXCEPT ![t] = existing]
                /\ Goto(t, "ep_finish")
           ELSE /\ returned' = returned
                /\ Goto(t, "ep_fail")
    /\ UNCHANGED <<transcriptions, recording_status, rid, pending, http_error,
                   api_calls, existed_at_call, existed_at_service_call, lost_race,
                   driver_result>>
    /\ UNCHANGED beside_requests

\* create_transcription after transcribe_audio returned: status COMPLETED,
\* the response is built from the transcription
EpFinish(t) ==
    /\ pc[t] = "ep_finish"
    /\ recording_status' = [recording_status EXCEPT ![rid[t]] = "COMPLETED"]
    /\ Goto(t, "done")
    /\ UNCHANGED <<transcriptions, rid, pending, returned, http_error,
                   api_calls, existed_at_call, existed_at_service_call, lost_race,
                   driver_result>>
    /\ UNCHANGED beside_requests

\* create_transcription's except clause: rollback, status FAILED, HTTP 500
EpFail(t) ==
    /\ pc[t] = "ep_fail"
    /\ recording_status' = [recording_status EXCEPT ![rid[t]] = "FAILED"]
    /\ http_error' = [http_error EXCEPT ![t] = "500"]
    /\ Goto(t, "done")
    /\ UNCHANGED <<transcriptions, rid, pending, returned, api_calls,
                   existed_at_call, existed_at_service_call, lost_race,
                   driver_result>>
    /\ UNCHANGED beside_requests

Init ==
    /\ max_retries = PRODUCTION_MAX_RETRIES
    /\ DriverIdle
    /\ RequestsIdle
    /\ ConditionerIdle
    /\ SummariesIdle
    /\ DetectorIdle
    /\ RetentionIdle
    /\ UsageIdle
    /\ LifecycleIdle

Next ==
    \/ \E t \in Tasks, r \in RecIds : Request(t, r)
    \/ \E t \in Tasks : EpBegin(t)
    \/ \E t \in Tasks : EpSelectExisting(t)
    \/ \E t \in Tasks : EpMarkProcessing(t)
    \/ \E t \in Tasks : SvcCheck(t)
    \/ \E t \in Tasks : ProdCheck(t)
    \/ \E t \in Tasks : RunDriver(t)
    \/ \E t \in Tasks : Commit(t)
    \/ \E t \in Tasks : Reread(t)
    \/ \E t \in Tasks : EpFinish(t)
    \/ \E t \in Tasks : EpFail(t)

Spec == Init /\ [][Next]_vars

\* ------------------------------------------------------ summary generation
\* a string, by what tells it from the others and its length in characters
Str(id, len) == [id |-> id, len |-> len]

\* A response of the language model: its whole text; whether it holds a
\* "```json" fence, a bare "```" fence or none; and what json.loads finds in
\* json_str (the text between the fences, or the whole response without
\* fences): an object with the summary members, something that is no JSON,
\* or JSON that is no object.
Fences == {"none", "json", "plain"}
Bodies == {"object", "text", "scalar"}
Response(fence, body) ==
    [text |-> Str(<<"response", fence, body>>, 16000), fence |-> fence,
     body |-> body]
Responses == { Response(fence, body) : fence \in Fences, body \in Bodies }

\* FallbackResult keeping the first 500 characters of the response
FallbackResult_Excerpt(resp) ==
    [summary |-> Str(resp.text.id, Min(resp.text.len, 500)), key_points |-> <<>>,
     action_items |-> <<>>, category |-> "unknown"]

\* "except json.JSONDecodeError": the whole response is the summary
FallbackResult(resp) ==
    [summary |-> resp.text, key_points |-> <<>>, action_items |-> <<>>,
     category |-> "unknown"]

\* the try block that parses the response: the dict result, or the exception
\* of result.get on JSON that is no object
ParseResponse(resp) ==
    IF resp.body = "text" THEN [raised |-> None, result |-> FallbackResult(resp)]
    ELSE IF resp.body = "object"
    THEN [raised |-> None,
          result |-> [summary |-> Str(<<"member", "summary", resp.fence>>, 900),
                      key_points |-> <<"point">>, action_items |-> <<"item">>,
                      category |-> "quick_summary"]]
    ELSE [raised |-> "AttributeError", result |-> Nothing]

\* select(Summary).filter(recording_id == r), scalar_one_or_none()
SelectSummary(r) ==
    IF \E row \in summaries : row.recording_id = r
    THEN CHOOSE row \in summaries : row.recording_id = r
    ELSE Nothing

\* Summary(recording_id, transcription_id, summary_text, ...)
Summary(r, transcription_id, res) ==
    [recording_id |-> r, transcription_id |-> transcription_id,
     summary_text |-> res.summary, key_points |-> res.key_points,
     action_items |-> res.action_items, category |-> res.category]

\* POST /summaries/generate for a recording that has a transcription (404
\* without one): an existing summary is regenerated when a custom prompt is
\* given (and returned as it is otherwise), a first one is generated and
\* stored; an exception of either leaves the tables alone (500).
GenerateSummary(r) ==
    /\ SelectByRecording(r) # Nothing
    /\ \E custom_prompt \in BOOLEAN, resp \in Responses :
         LET transcription == SelectByRecording(r)
             existing == SelectSummary(r)
             parsed == ParseResponse(resp)
         IN  /\ existing # Nothing => custom_prompt
             /\ summary_response' = [summary_response EXCEPT ![r] = resp]
             /\ summaries' =
                    IF parsed.raised # None THEN summaries
                    ELSE (summaries \ {existing})
                         \cup {Summary(r, transcription.id, parsed.result)}
    /\ UNCHANGED beside_summaries

\* a client posts /create, and nobody did before
FirstRequest(t, r) == (\A u \in Tasks : pc[u] = "idle") /\ Request(t, r)

\* one create_transcription request on its own, and the summaries generated
\* for its recording once that has a transcription
SummaryNext ==
    \/ \E t \in Tasks, r \in RecIds : FirstRequest(t, r)
    \/ \E t \in Tasks : EpBegin(t)
    \/ \E t \in Tasks : EpSelectExisting(t)
    \/ \E t \in Tasks : EpMarkProcessing(t)
    \/ \E t \in Tasks : SvcCheck(t)
    \/ \E t \in Tasks : ProdCheck(t)
    \/ \E t \in Tasks : RunDriver(t)
    \/ \E t \in Tasks : Commit(t)
    \/ \E t \in Tasks : EpFinish(t)
    \/ \E t \in Tasks : EpFail(t)
    \/ \E r \in RecIds : GenerateSummary(r)

SummarySpec == Init /\ [][SummaryNext]_vars

\* --------------------------------- one request, the driver step by step
\* The request of one client with ProductionWhisperService.transcribe run
\* await by await, and the CancelledError that asyncio throws into the
\* request's task at the await it is suspended in.

\* the files of the driver, and files of half a second and of three hours
PipelineFiles ==
    DriverFiles
    \cup { AudioFile(TRUE, 2 * MB, TRUE, "mp3", 500, 1, -12),
           AudioFile(TRUE, 2 * MB, TRUE, "ogg", 500, 2, -12),
           AudioFile(TRUE, 2 * MB, TRUE, "mp3", 3 * 3600 * 1000, 1, -12) }

\* the texts the capability returns to the request
PipelineTexts ==
    { text \in Texts : text.name \in {"clean", "mild", "loop", "empty"} }

\* what the steps of the request's driver leave alone
beside_pipeline ==
    <<cond_vars, sum_vars, det_vars, ret_vars, use_vars, life_vars>>

\* the request is inside "await self.production_service.transcribe(...)"
InDriver == \E t \in Tasks : pc[t] = "driver"

\* the request of task 1 for recording 1
PipelineRequest == FirstRequest(1, 1)

PipelinePrepare == InDriver /\ PrepareOn(PipelineFiles)

PipelineCall == InDriver /\ CallWhisper

PipelineReturns ==
    InDriver /\ \E text \in PipelineTexts : WhisperAnswers(TextOutcome(text))

PipelineRaises == InDriver /\ WhisperAnswers(ErrorOutcome("transient"))

\* transcribe has returned its TranscriptionResult to
\* transcribe_audio_production
TakeResult(t) == drv_pc = "done" /\ DriverReturned(t, result, calls)

\* whether "except Exception" catches an exception: CancelledError derives
\* from BaseException
ExceptException(e) == e # "CancelledError"

\* CancelledError leaves transcribe through its finally clause, then
\* transcribe_audio_production and create_transcription, none of whose
\* except clauses catches it: nothing is returned
Propagate(t) ==
    /\ ~ExceptException("CancelledError")
    /\ drv_pc' = "cancelled"
    /\ temp_files' = Cleanup(processed_path, temp_files)
    /\ Goto(t, "cancelled")
    /\ UNCHANGED <<max_retries, temperatures_to_try, best_result, best_score,
                   warnings, result, processed_path, prep_metadata, duration,
                   calls, cands, outcomes, whisper_paths>>
    /\ UNCHANGED <<transcriptions, recording_status, rid, pending, returned,
                   http_error, api_calls, existed_at_call,
                   existed_at_service_call, lost_race, driver_result>>
    /\ UNCHANGED beside_pipeline

\* the task is cancelled between two attempts: the next iteration counts its
\* attempt and the error is raised at the first await of _call_whisper, the
\* opening of the file, before the capability is called
CancelBetweenAttempts(t) ==
    /\ pc[t] = "driver"
    /\ drv_pc = "loop"
    /\ attempts < Len(temperatures_to_try)
    /\ attempts' = attempts + 1
    /\ Propagate(t)

\* the task is cancelled while the capability call is awaited
CancelInFlight(t) ==
    /\ pc[t] = "driver"
    /\ drv_pc = "await"
    /\ attempts' = attempts
    /\ Propagate(t)

PipelineNext ==
    \/ PipelineRequest
    \/ \E t \in Tasks : EpBegin(t)
    \/ \E t \in Tasks : EpSelectExisting(t)
    \/ \E t \in Tasks : EpMarkProcessing(t)
    \/ \E t \in Tasks : SvcCheck(t)
    \/ \E t \in Tasks : ProdCheck(t)
    \/ PipelinePrepare
    \/ PipelineCall
    \/ PipelineReturns
    \/ PipelineRaises
    \/ \E t \in Tasks : CancelBetweenAttempts(t)
    \/ \E t \in Tasks : CancelInFlight(t)
    \/ \E t \in Tasks : TakeResult(t)
    \/ \E t \in Tasks : Commit(t)
    \/ \E t \in Tasks : EpFinish(t)
    \/ \E t \in Tasks : EpFail(t)

PipelineSpec == Init /\ [][PipelineNext]_vars

\* ------------------------------------------------------ detect, alone
\* the longest word a text is built from
MaxWordLen == 2

Letters == {"a", "b"}

RECURSIVE WordsOfLen(_)
WordsOfLen(n) ==
    IF n = 0 THEN { <<>> }
    ELSE { Append(w, c) : w \in WordsOfLen(n - 1), c \in Letters }

Words == UNION { WordsOfLen(n) : n \in 1..MaxWordLen }

\* a phrase said `times` times in a row, as a list of words
RECURSIVE Repeated(_, _)
Repeated(phrase, times) ==
    IF times = 0 THEN <<>> ELSE phrase \o Repeated(phrase, times - 1)

\* the text of a 4-word phrase repeated 5 times consecutively (20 words)
PhraseText(words) == join(Repeated(words, 5))

DetectInit ==
    /\ det_words \in [1..4 -> Words]
    /\ det_text = PhraseText(det_words)
    /\ det_result = Nothing
    /\ max_retries = PRODUCTION_MAX_RETRIES
    /\ DriverIdle
    /\ RequestsIdle
    /\ ConditionerIdle
    /\ SummariesIdle
    /\ RetentionIdle
    /\ RetentionIdle
    /\ UsageIdle
    /\ UsageIdle
    /\ LifecycleIdle

\* has_repetition, repeated_phrase = RepetitionDetector.detect(text)
Detect ==
    /\ det_result = Nothing
    /\ det_result' = RepetitionDetector_detect(det_text)
    /\ UNCHANGED <<det_words, det_text>>
    /\ UNCHANGED beside_detector

DetectNext == Detect

DetectSpec == DetectInit /\ [][DetectNext]_vars

\* ----------------------------------------------- the audio cleanup job
\* the points in time an audio_delete_at and the job's clock can take
Times == 0..2

\* Recording.audio_delete_at <= now of the query: NULL is never <= now
Expired(row, now) ==
    row.audio_delete_at # NULL /\ row.audio_delete_at <= now

\* the rows that set_retention_policy, enable_retention, delete_audio_file and
\* the cleanup job itself write: both flags are set and cleared together
RetentionRows ==
    { NoPolicy }
    \cup { RetentionRow(t, flag, flag) : t \in Times, flag \in BOOLEAN }

\* the orders in which a query without ORDER BY can return a set of rows
RECURSIVE Orders(_)
Orders(S) ==
    IF S = {} THEN { <<>> }
    ELSE UNION { { <<r>> \o rest : rest \in Orders(S \ {r}) } : r \in S }

RetentionInit ==
    /\ rec_rows \in [RecIds -> RetentionRows]
    /\ rec_session = rec_rows
    /\ audio_files \in SUBSET RecIds
    /\ CleanupIdle
    /\ UsageIdle
    /\ LifecycleIdle
    /\ max_retries = PRODUCTION_MAX_RETRIES
    /\ DriverIdle
    /\ RequestsIdle
    /\ ConditionerIdle
    /\ SummariesIdle
    /\ DetectorIdle
    /\ UsageIdle

\* now = datetime.utcnow(); the select, in the session of this call, of the
\* expired recordings that can still regenerate; the counters
CleanupBegin(now) ==
    /\ cleanup_pc' = "loop"
    /\ cleanup_now' = now
    /\ expired_recordings' \in
           Orders({ r \in RecIds : /\ Expired(rec_rows[r], now)
                                   /\ rec_rows[r].can_regenerate })
    /\ deleted_count' = 0
    /\ failed_count' = 0
    /\ rows_at_start' = rec_rows
    /\ files_at_start' = audio_files
    /\ rec_session' = rec_rows
    /\ UNCHANGED <<rec_rows, audio_files, cleanup_result>>
    /\ UNCHANGED beside_retention

\* one call of cleanup_expired_audio, at any time
CleanupStart ==
    /\ cleanup_pc = "idle"
    /\ \E now \in Times : CleanupBegin(now)

\* recording.can_regenerate = False; recording.audio_retention_enabled = False
MarkDeleted(row) ==
    [row EXCEPT !.can_regenerate = FALSE, !.audio_retention_enabled = FALSE]

\* one pass of "for recording in expired_recordings": os.remove either
\* removes the file or raises, and the except clause counts the failure
CleanupOne ==
    /\ cleanup_pc = "loop"
    /\ expired_recordings # <<>>
    /\ LET recording == Head(expired_recordings) IN
       IF recording \in audio_files
       THEN \E remove_raises \in BOOLEAN :
            IF remove_raises
            THEN /\ failed_count' = failed_count + 1
                 /\ UNCHANGED <<audio_files, deleted_count, rec_session>>
            ELSE /\ audio_files' = audio_files \ {recording}
                 /\ deleted_count' = deleted_count + 1
                 /\ rec_session' = [rec_session EXCEPT
                                       ![recording] = MarkDeleted(@)]
                 /\ UNCHANGED failed_count
       ELSE /\ rec_session' = [rec_session EXCEPT
                                       ![recording] = MarkDeleted(@)]
            /\ UNCHANGED <<audio_files, deleted_count, failed_count>>
    /\ expired_recordings' = Tail(expired_recordings)
    /\ UNCHANGED <<rec_rows, cleanup_pc, cleanup_now, cleanup_result,
                   rows_at_start, files_at_start>>
    /\ UNCHANGED beside_retention

\* "if deleted_count > 0 or failed_count > 0: await db.commit()"
CommitsCleanup(deleted, failed) == deleted > 0 \/ failed > 0

\* after the loop: the commit, if any, and the returned statistics
CleanupFinish ==
    /\ cleanup_pc = "loop"
    /\ expired_recordings = <<>>
    /\ rec_rows' = IF CommitsCleanup(deleted_count, failed_count)
                   THEN rec_session ELSE rec_rows
    /\ cleanup_result' = [success |-> TRUE, deleted_count |-> deleted_count,
                          failed_count |-> failed_count]
    /\ cleanup_pc' = "done"
    /\ UNCHANGED <<rec_session, audio_files, cleanup_now, expired_recordings,
                   deleted_count, failed_count, rows_at_start, files_at_start>>
    /\ UNCHANGED beside_retention

RetentionNext ==
    \/ CleanupStart
    \/ CleanupOne
    \/ CleanupFinish

RetentionSpec == RetentionInit /\ [][RetentionNext]_vars

\* ------------------------------------------------ the life of a recording
\* the last day the clock reaches
MaxDays == 14

\* the days between two runs of the weekly cleanup job
DAYS_PER_WEEK == 7

\* timedelta(days=10) of set_retention_policy and enable_retention
RETENTION_DAYS == 10

\* SubscriptionTier; each tier has one user, whose id is the tier's name
SubscriptionTier == { "free", "basic", "pro" }

\* a request is served while the cleanup job is not inside its loop: the
\* operations follow one another
Between == cleanup_pc # "loop"

\* the row as committed and as every later session reads it
WriteRow(r, row) ==
    /\ rec_rows' = [rec_rows EXCEPT ![r] = row]
    /\ rec_session' = [rec_session EXCEPT ![r] = row]

\* what a request leaves alone of the cleanup job
JobUntouched ==
    UNCHANGED <<cleanup_pc, cleanup_now, expired_recordings, deleted_count,
                failed_count, cleanup_result, rows_at_start, files_at_start>>

\* set_retention_policy(recording, user, db): deletion now and nothing to
\* regenerate from, unless the user is PRO: ten days, both flags set
set_retention_policy(user, now) ==
    IF user # None /\ user = "pro"
    THEN RetentionRow(now + RETENTION_DAYS, TRUE, TRUE)
    ELSE RetentionRow(now, FALSE, FALSE)

\* POST /upload as current_user, a user or None without a token: the file is
\* saved, the row added and committed, and set_retention_policy commits its
\* three columns
upload_recording(r, current_user) ==
    /\ Between
    /\ r \notin recordings
    /\ audio_files' = audio_files \cup {r}
    /\ recordings' = recordings \cup {r}
    /\ rec_user' = [rec_user EXCEPT ![r] = current_user]
    /\ WriteRow(r, set_retention_policy(current_user, clock))
    /\ JobUntouched
    /\ UNCHANGED clock
    /\ UNCHANGED beside_lifecycle

\* POST /{recording_id}/retain as current_user (require_pro): enable_retention
\* raises for a user who is not PRO, for an unknown recording and for one of
\* another user; otherwise it sets the flags and ten more days, and commits
enable_retention(r, user) ==
    /\ Between
    /\ user = "pro"
    /\ r \in recordings
    /\ rec_user[r] = user
    /\ WriteRow(r, RetentionRow(clock + RETENTION_DAYS, TRUE, TRUE))
    /\ JobUntouched
    /\ UNCHANGED <<audio_files, recordings, rec_user, clock>>
    /\ UNCHANGED beside_lifecycle

\* DELETE /{recording_id}/audio as current_user: delete_audio_file with
\* force = False raises for an unknown recording and for one of another user
\* (an anonymous recording is of no user); os.remove removes the file if it
\* is there, or raises and is only reported; the flags are cleared and
\* audio_delete_at is set to now in either case
delete_audio_file(r, user) ==
    /\ Between
    /\ r \in recordings
    /\ rec_user[r] = user
    /\ \E remove_raises \in BOOLEAN :
           audio_files' = IF r \in audio_files /\ ~remove_raises
                          THEN audio_files \ {r} ELSE audio_files
    /\ WriteRow(r, RetentionRow(clock, FALSE, FALSE))
    /\ JobUntouched
    /\ UNCHANGED <<recordings, rec_user, clock>>
    /\ UNCHANGED beside_lifecycle

\* DELETE /{recording_id}, of any caller: the file is removed if it is there
\* and the row is deleted
delete_recording(r) ==
    /\ Between
    /\ r \in recordings
    /\ audio_files' = audio_files \ {r}
    /\ recordings' = recordings \ {r}
    /\ rec_user' = [rec_user EXCEPT ![r] = None]
    /\ WriteRow(r, NoPolicy)
    /\ JobUntouched
    /\ UNCHANGED clock
    /\ UNCHANGED beside_lifecycle

\* cleanup_expired_audio_job of the scheduler: one more run of the job, at
\* the time of the clock
cleanup_expired_audio_job ==
    /\ Between
    /\ CleanupBegin(clock)

\* a week passes
Tick ==
    /\ clock + DAYS_PER_WEEK <= MaxDays
    /\ clock' = clock + DAYS_PER_WEEK
    /\ UNCHANGED <<recordings, rec_user>>
    /\ UNCHANGED ret_vars
    /\ UNCHANGED beside_lifecycle

LifecycleInit ==
    /\ RetentionIdle
    /\ LifecycleIdle
    /\ UsageIdle
    /\ max_retries = PRODUCTION_MAX_RETRIES
    /\ DriverIdle
    /\ RequestsIdle
    /\ ConditionerIdle
    /\ SummariesIdle
    /\ DetectorIdle

LifecycleNext ==
    \/ \E r \in RecIds, u \in SubscriptionTier \cup { None } :
           upload_recording(r, u)
    \/ \E r \in RecIds, u \in SubscriptionTier : enable_retention(r, u)
    \/ \E r \in RecIds, u \in SubscriptionTier : delete_audio_file(r, u)
    \/ \E r \in RecIds : delete_recording(r)
    \/ cleanup_expired_audio_job
    \/ CleanupOne
    \/ CleanupFinish
    \/ Tick

LifecycleSpec == LifecycleInit /\ [][LifecycleNext]_vars

\* the scheduler runs the weekly job again and again, and a run that has
\* begun goes through its loop to its return; each of these steps moves the
\* job's position
FairLifecycleSpec ==
    /\ LifecycleSpec
    /\ WF_<<cleanup_pc, expired_recordings>>(cleanup_expired_audio_job)
    /\ WF_<<cleanup_pc, expired_recordings>>(CleanupOne)
    /\ WF_<<cleanup_pc, expired_recordings>>(CleanupFinish)

\* ------------------------------------------------ the monthly usage reset
\* dates of datetime: a common year and a leap year
Years == {2023, 2024}

Date(y, m, d) == [year |-> y, month |-> m, day |-> d]

IsLeap(y) == y % 4 = 0 /\ (y % 100 # 0 \/ y % 400 = 0)

DaysInMonth(y, m) ==
    IF m = 2 THEN (IF IsLeap(y) THEN 29 ELSE 28)
    ELSE IF m \in {4, 6, 9, 11} THEN 30
    ELSE 31

Dates ==
    { Date(y, m, d) : y \in Years, m \in 1..12, d \in 1..31 }
    \ { dt \in [year : Years, month : 1..12, day : 1..31] :
           dt.day > DaysInMonth(dt.year, dt.month) }

\* datetime.replace(year=y, month=m): the same day of that month, or
\* ValueError when that month has no such day
replace(dt, y, m) ==
    IF dt.day > DaysInMonth(y, m)
    THEN [raised |-> "ValueError", value |-> Nothing]
    ELSE [raised |-> None, value |-> Date(y, m, dt.day)]

\* dt + timedelta(days=n)
RECURSIVE AddDays(_, _)
AddDays(dt, n) ==
    IF n = 0 THEN dt
    ELSE IF dt.day < DaysInMonth(dt.year, dt.month)
    THEN AddDays(Date(dt.year, dt.month, dt.day + 1), n - 1)
    ELSE IF dt.month < 12
    THEN AddDays(Date(dt.year, dt.month + 1, 1), n - 1)
    ELSE AddDays(Date(dt.year + 1, 1, 1), n - 1)

\* "Calculate next reset date (add 1 month)"
NextReset(usage_reset_at, now) ==
    IF usage_reset_at # Nothing
    THEN LET current_reset == usage_reset_at IN
         IF current_reset.month = 12
         THEN replace(current_reset, current_reset.year + 1, 1)
         ELSE replace(current_reset, current_reset.year,
                      current_reset.month + 1)
    ELSE [raised |-> None, value |-> AddDays(now, 30)]

\* the usage columns of a User
UserRow(trial, used, reset_at) ==
    [is_trial_user |-> trial, monthly_hours_used |-> used,
     usage_reset_at |-> reset_at]

\* hours of monthly_hours_used
HoursUsed == {0, 3}

\* what reset_monthly_usage answers: the exception it raised or the
\* dictionary it returned
ResetRaised(e) == [raised |-> e]
ResetRefused == [raised |-> None, success |-> FALSE]
ResetDone(old_usage, user) ==
    [raised |-> None, success |-> TRUE, old_usage_hours |-> old_usage,
     new_usage_hours |-> user.monthly_hours_used,
     next_reset_date |-> user.usage_reset_at]

\* reset_monthly_usage(user_id, db) on the committed row `row` (Nothing when
\* no user has that id): what it answers, the session's User object and the
\* committed row when it has returned or raised
reset_monthly_usage(row, now) ==
    IF row = Nothing
    THEN [answer |-> ResetRaised("Exception"), session |-> Nothing,
          committed |-> row]
    ELSE IF row.is_trial_user
    THEN [answer |-> ResetRefused, session |-> row, committed |-> row]
    ELSE LET old_usage == row.monthly_hours_used
             zeroed == [row EXCEPT !.monthly_hours_used = 0]
             next_reset == NextReset(row.usage_reset_at, now)
         IN  IF next_reset.raised # None
             THEN [answer |-> ResetRaised(next_reset.raised),
                   session |-> zeroed, committed |-> row]
             ELSE LET user == [zeroed EXCEPT
                                   !.usage_reset_at = next_reset.value]
                  IN  [answer |-> ResetDone(old_usage, user),
                       session |-> user, committed |-> user]

\* the clock is read only when usage_reset_at is NULL: every date of the
\* clock with a NULL usage_reset_at, every usage_reset_at with one clock
UsageInit ==
    /\ usage_now \in Dates
    /\ user_row \in
           { Nothing }
           \cup { UserRow(trial, used, reset_at) :
                    trial \in BOOLEAN, used \in HoursUsed,
                    reset_at \in IF usage_now = Date(2024, 1, 1)
                                 THEN Dates \cup { Nothing }
                                 ELSE { Nothing } }
    /\ user_session = Nothing
    /\ reset_result = Nothing
    /\ user_at_start = Nothing
    /\ max_retries = PRODUCTION_MAX_RETRIES
    /\ DriverIdle
    /\ RequestsIdle
    /\ ConditionerIdle
    /\ SummariesIdle
    /\ DetectorIdle
    /\ RetentionIdle
    /\ LifecycleIdle

\* await UsageTrackingService.reset_monthly_usage(user.id, db)
ResetMonthlyUsage ==
    /\ reset_result = Nothing
    /\ LET call == reset_monthly_usage(user_row, usage_now) IN
        /\ reset_result' = call.answer
        /\ user_session' = call.session
        /\ user_row' = call.committed
    /\ user_at_start' = user_row
    /\ UNCHANGED usage_now
    /\ UNCHANGED beside_usage

UsageNext == ResetMonthlyUsage

UsageSpec == UsageInit /\ [][UsageNext]_vars

\* ------------------------------------------------ the requests' properties
\* the request has got its answer from transcribe_audio
ServiceReturned(t) == pc[t] \in {"ep_finish", "done"}

C2_OneRecordPerRecording ==
    \A a \in transcriptions, b \in transcriptions :
        a.recording_id = b.recording_id => a = b

\* two requests for one recording both built a Transcription and one of the
\* two commits was turned down
C2_Witness ==
    \E t \in Tasks, u \in Tasks :
        /\ t # u /\ rid[t] = rid[u]
        /\ pending[t] \in transcriptions
        /\ pending[u] # Nothing /\ lost_race[u]

\* C3: a request whose commit the uniqueness constraint rejected rolls back,
\* reads the table again and answers with the winner's row, never an error.
C3_DuplicateRaceResolved ==
    \A t \in Tasks :
        lost_race[t] =>
            /\ pc[t] \in {"reread", "ep_finish", "done"}
            /\ http_error[t] = None
            /\ ServiceReturned(t) =>
                   /\ returned[t] \in transcriptions
                   /\ returned[t].recording_id = rid[t]
                   /\ returned[t].id # t

C3_Witness ==
    \E t \in Tasks :
        /\ lost_race[t] /\ pc[t] = "done"
        /\ returned[t] \in transcriptions /\ returned[t].id # t
        /\ returned[t] # pending[t]

\* ------------------------------------------------- the driver's properties
Done == drv_pc = "done"

\* the attempt loop was entered (prepare_audio did not raise)
LoopRan == Done /\ processed_path # None

Scores == { cands[i].cand.quality_score : i \in DOMAIN cands }
MaxScore == CHOOSE m \in Scores : \A x \in Scores : x <= m

\* the accept-early rule as the specification words it
MeetsAcceptRule(c) == c.quality_score >= 800 /\ c.has_repetition = FALSE

\* C4: every TranscriptionResult returned by transcribe, on every exit path,
\* has transcript None if and only if its quality is FAILED.
C4_TranscriptNoneIffFailed ==
    Done => ((result.transcript = None) <=> (result.quality = "FAILED"))

C4_Witness ==
    /\ Done /\ result.quality = "FAILED" /\ result.transcript = None
    /\ result.attempts = 5 /\ Len(cands) = 0

\* C5: the returned confidence_score is the maximum quality score among the
\* candidates produced in the call, and the returned transcript and
\* temperature_used are those of a candidate that has that maximum score.
C5_MonotonicAcceptance ==
    (Done /\ cands # <<>>) =>
        /\ result.confidence_score = MaxScore
        /\ \E i \in DOMAIN cands :
             /\ cands[i].cand.quality_score = MaxScore
             /\ result.transcript = cands[i].cand.transcript
             /\ result.temperature_used = cands[i].cand.temperature

\* C6: once an attempt has yielded a candidate with quality_score >= 0.8 and
\* no repetition, the invocation is over and that attempt's capability call
\* was its last one (so exactly one call when the first attempt is such).
C6_EarlyAccept ==
    \A i \in DOMAIN cands :
        MeetsAcceptRule(cands[i].cand) =>
            /\ Done
            /\ calls = cands[i].attempt_index
            /\ result.attempts = cands[i].attempt_index

C6_Witness ==
    /\ Done /\ calls = 1 /\ Len(temperatures_to_try) = 5
    /\ Len(cands) = 1 /\ MeetsAcceptRule(cands[1].cand)
    /\ cands[1].cand.quality_score = 800

\* C7: with no attempt meeting the accept-early rule, the driver makes exactly
\* min(max_attempts, 5) capability calls and then promotes the highest-scoring
\* candidate; when every attempt scores 0.4 the quality is POOR.
C7_Exhaustion ==
    (LoopRan /\ \A i \in DOMAIN cands : ~MeetsAcceptRule(cands[i].cand)) =>
        /\ calls = Min(max_retries, Len(TEMPERATURE_SEQUENCE))
        /\ cands # <<>> =>
             \E i \in DOMAIN cands :
                 /\ cands[i].cand.quality_score = MaxScore
                 /\ result.transcript = cands[i].cand.transcript
        /\ (/\ calls > 0 /\ Len(cands) = calls
            /\ \A i \in DOMAIN cands : cands[i].cand.quality_score = 400)
               => result.quality = "POOR"

\* C8: an invocation ends after at most max_attempts capability calls, and
\* never more than len(TEMPERATURE_SEQUENCE) = 5, whatever the capability does.
C8_BoundedTermination ==
    /\ calls <= Len(TEMPERATURE_SEQUENCE)
    /\ calls <= Max(max_retries, 0)
    /\ ~Done => ENABLED DriverNext

\* C9: when every attempt of an invocation raised, the result has transcript
\* None, quality FAILED, an error message, and attempts = the calls made.
C9_TotalFailure ==
    (Done /\ \A i \in DOMAIN outcomes : outcomes[i] \in ErrKinds) =>
        /\ result.transcript = None
        /\ result.quality = "FAILED"
        /\ result.error # None
        /\ result.attempts = calls

C9_Witness ==
    /\ Done /\ Len(outcomes) = 5
    /\ \A i \in DOMAIN outcomes : outcomes[i] = "transient"
    /\ result.quality = "FAILED" /\ result.attempts = 5

\* C10: once a capability call has failed with a fatal error, the invocation
\* makes no further capability call and ends in failure.
C10_FatalAborts ==
    \A i \in DOMAIN outcomes :
        outcomes[i] = "fatal" =>
            /\ calls = i
            /\ Done
            /\ result.quality = "FAILED"

\* C11: for the promoted best candidate with score s and repetition flag r the
\* quality is EXCELLENT iff s >= 0.9 and not r, GOOD iff s >= 0.7 and not r and
\* not EXCELLENT, FAIR iff s >= 0.5 and neither of these, POOR otherwise; FAIR
\* and POOR, and only they, append their review / re-record warning.
C11_QualityMapping ==
    (Done /\ best_result # Nothing) =>
        LET s == best_score
            r == best_result.has_repetition
            excellent == s >= 900 /\ ~r
            good == s >= 700 /\ ~r /\ ~excellent
            fair == s >= 500 /\ ~excellent /\ ~good
            said(kind) == \E i \in DOMAIN result.warnings :
                              result.warnings[i] = Note(kind)
        IN  /\ result.confidence_score = s
            /\ (result.quality = "EXCELLENT") <=> excellent
            /\ (result.quality = "GOOD") <=> good
            /\ (result.quality = "FAIR") <=> fair
            /\ (result.quality = "POOR") <=> (~excellent /\ ~good /\ ~fair)
            /\ said("fair") <=> (result.quality = "FAIR")
            /\ said("poor") <=> (result.quality = "POOR")

\* a repeating text scoring exactly 0.5 was promoted and mapped to FAIR
C11_Witness ==
    /\ Done /\ best_result # Nothing
    /\ best_score = 500 /\ best_result.has_repetition
    /\ result.quality = "FAIR"
    /\ \E i \in DOMAIN result.warnings : result.warnings[i] = Note("fair")

\* 0.7 - 0.2 lies below 0.5 as a double, and was mapped to POOR
C11_WitnessBelowHalf ==
    /\ Done /\ best_result # Nothing
    /\ best_score = 499 /\ result.quality = "POOR"

\* the exceptions the conversion inside prepare_audio can end with
ConditioningErrors == {"CouldntDecodeError", "ZeroDivisionError", "export failed"}

\* prepare_audio went through its except clause
ConditioningFailed == prep_metadata # Nothing /\ "error" \in DOMAIN prep_metadata

\* C12: no temporary conditioned-audio file created during an invocation of
\* transcribe exists any more when the invocation has returned, whichever way
\* it ended.
C12_TempFilesRemoved == Done => temp_files = {}

\* C13: when the conversion inside prepare_audio raises, prepare_audio hands
\* back the original input path, no result of transcribe carries that
\* exception, and the attempt loop runs with the original file.
C13_ConditioningNeverBlocks ==
    /\ Done => result.error \notin ConditioningErrors
    /\ ConditioningFailed =>
          /\ processed_path = InputPath
          /\ prep_metadata.was_processed = FALSE
          /\ whisper_paths \subseteq {InputPath}
          /\ drv_pc \in {"loop", "await", "done"}
          /\ (Done /\ temperatures_to_try # <<>>) =>
                /\ calls >= 1
                /\ whisper_paths = {InputPath}
                /\ result.attempts = calls

\* the conversion of an .ogg file failed and the first attempt on the
\* original file was accepted
C13_Witness ==
    /\ Done /\ ConditioningFailed
    /\ prep_metadata.original_format = "ogg"
    /\ calls = 1 /\ whisper_paths = {InputPath}
    /\ result.quality = "EXCELLENT"

\* --------------------------------------------- the conditioner's properties
\* prepare_audio returned, and its conversion (if any) went through
Conditioned ==
    /\ conditioned # Nothing /\ conditioned.raised = None
    /\ "error" \notin DOMAIN conditioned.metadata

\* C14: for a file of at most 25 MB in a native format that is not below the
\* quiet threshold, prepare_audio returns the original path with
\* was_processed false and no processing steps, and creates no file.
C14_ConditioningSkip ==
    (/\ conditioned # Nothing /\ audio.exists
     /\ audio.size <= 25 * MB
     /\ audio.has_dot /\ lower(audio.suffix) \in WHISPER_NATIVE_FORMATS
     /\ audio.dBFS >= -30) =>
        /\ conditioned.raised = None
        /\ conditioned.path = InputPath
        /\ conditioned.metadata.was_processed = FALSE
        /\ conditioned.metadata.processing_steps = <<>>
        /\ conditioned.created = {}

\* a file of exactly 25 MB named .MP3, at -30 dBFS, came back untouched
C14_Witness ==
    /\ conditioned # Nothing
    /\ audio.exists /\ audio.size = 25 * MB /\ audio.has_dot
    /\ audio.suffix = "MP3" /\ audio.dBFS = -30 /\ audio.channels = 2
    /\ conditioned.path = InputPath /\ conditioned.created = {}

\* C15: for every file over 25 MB with a positive duration whose conversion
\* goes through, was_processed is true and the export bitrate b has
\* 64 <= b <= 128 kbps and b * duration below 25 MB.
C15_SizeTriggeredCompression ==
    (Conditioned /\ audio.size > 25 * MB /\ audio.length_ms > 0) =>
        /\ conditioned.metadata.was_processed = TRUE
        /\ conditioned.metadata.output_bitrate >= 64
        /\ conditioned.metadata.output_bitrate <= 128
        /\ conditioned.metadata.output_bitrate * audio.length_ms
               < 25 * MB * 8

\* C16: when the driver's result has quality FAILED (transcript None),
\* transcribe_audio_production raises to its caller and the request adds no
\* transcription row.
C16_FailedNeverPersisted ==
    \A t \in Tasks :
        (driver_result[t] # Nothing /\ driver_result[t].quality = "FAILED") =>
            /\ driver_result[t].transcript = None
            /\ pc[t] \in {"ep_fail", "done"}
            /\ pc[t] = "done" => http_error[t] = "500"
            /\ pending[t] = Nothing
            /\ returned[t] = Nothing
            /\ \A row \in transcriptions : row.id # t

\* a request whose driver made five calls and failed has answered 500, and
\* its recording has no row
C16_Witness ==
    \E t \in Tasks :
        /\ driver_result[t] # Nothing /\ driver_result[t].quality = "FAILED"
        /\ api_calls[t] = 5
        /\ pc[t] = "done" /\ http_error[t] = "500"
        /\ recording_status[rid[t]] = "FAILED"
        /\ SelectByRecording(rid[t]) = Nothing

\* ------------------------------------------------- the summaries' properties
\* the transcripts the capability returns during a request
CapabilityTexts ==
    { out.text.name : out \in { o \in RequestOutcomes : o.kind = "text" } }

\* C17: the text of a stored transcription row is, in full, the transcript
\* of the best candidate the driver promoted, as the capability returned it;
\* a summary generation whose JSON parsing fails leaves that text as it is and
\* stores the whole raw response as the summary text.
C17_NoTruncation ==
    /\ \A row \in transcriptions :
          /\ driver_result[row.id] # Nothing
          /\ row.text = driver_result[row.id].transcript
          /\ row.text \in CapabilityTexts
    /\ \A r \in RecIds :
          (summary_response[r] # Nothing /\ summary_response[r].body = "text") =>
              /\ SelectSummary(r) # Nothing
              /\ SelectSummary(r).summary_text = summary_response[r].text
              /\ SelectSummary(r).summary_text.len = 16000
              /\ SelectByRecording(r) # Nothing

\* a recording has its transcription, and its summary is the whole response
\* that held a fence around something that is no JSON
C17_Witness ==
    \E r \in RecIds :
        /\ SelectByRecording(r) # Nothing
        /\ SelectByRecording(r).text = "clean"
        /\ summary_response[r] # Nothing
        /\ summary_response[r].body = "text" /\ summary_response[r].fence = "json"
        /\ SelectSummary(r) # Nothing
        /\ SelectSummary(r).summary_text = summary_response[r].text

\* C18: the text of any four words repeated 5 times in a row is flagged by
\* RepetitionDetector.detect with has_repetition = true. (detect answers
\* False for every text under 50 characters before it looks at the words.)
C18_RepeatedPhraseFlagged ==
    det_result # Nothing => det_result.has_repetition

\* C19: after cleanup_expired_audio completes, no committed recording has
\* both audio_delete_at <= the job's start time and can_regenerate = true,
\* whether or not its audio file was still on disk; recordings whose
\* audio_delete_at is in the future keep their file and their flag.
C19_ExpiredNeverRegenerable ==
    cleanup_pc = "done" =>
        \A r \in RecIds :
            /\ ~(Expired(rec_rows[r], cleanup_now) /\ rec_rows[r].can_regenerate)
            /\ (rows_at_start[r].audio_delete_at # NULL
                /\ rows_at_start[r].audio_delete_at > cleanup_now)
               => /\ rec_rows[r] = rows_at_start[r]
                  /\ (r \in files_at_start => r \in audio_files)

\* the calendar month after that of a date
NextCalendarMonth(dt) ==
    IF dt.month = 12 THEN [year |-> dt.year + 1, month |-> 1]
    ELSE [year |-> dt.year, month |-> dt.month + 1]

\* C20: for every non-trial user and every date usage_reset_at,
\* reset_monthly_usage returns success, leaves monthly_hours_used = 0
\* committed and moves usage_reset_at to the next calendar month; for a
\* trial user it returns success = false and changes no field.
C20_MonthlyReset ==
    (reset_result # Nothing /\ user_at_start # Nothing) =>
        IF user_at_start.is_trial_user
        THEN /\ reset_result = ResetRefused
             /\ user_row = user_at_start
             /\ user_session = user_at_start
        ELSE user_at_start.usage_reset_at # Nothing =>
             /\ reset_result.raised = None
             /\ reset_result.success
             /\ user_row.monthly_hours_used = 0
             /\ user_row.usage_reset_at # Nothing
             /\ [year |-> user_row.usage_reset_at.year,
                 month |-> user_row.usage_reset_at.month]
                = NextCalendarMonth(user_at_start.usage_reset_at)

\* C21: when a capability call raises a transient error, the driver appends
\* exactly one warning for that attempt, keeps the retained best candidate
\* unchanged, and goes on to the next temperature if one remains.
C21_TransientRecovery ==
    [][(drv_pc = "await" /\ outcomes' = Append(outcomes, "transient")) =>
          LET temp == temperatures_to_try[attempts] IN
          /\ Len(warnings') > Len(warnings)
          /\ SubSeq(warnings', 1, Len(warnings) + 1)
             = Append(warnings, Warn("api_error_transient", temp))
          /\ \A i \in (Len(warnings) + 2)..Len(warnings') :
                "temp" \notin DOMAIN warnings'[i]
          /\ best_result' = best_result
          /\ best_score' = best_score
          /\ attempts < Len(temperatures_to_try) =>
                /\ drv_pc' = "loop"
                /\ attempts' = attempts
                /\ temperatures_to_try' = temperatures_to_try
      ]_vars

\* a transient error after a candidate was retained, with temperatures left
C21_Witness ==
    /\ drv_pc = "loop"
    /\ outcomes # <<>> /\ outcomes[Len(outcomes)] = "transient"
    /\ best_result # Nothing
    /\ attempts < Len(temperatures_to_try)
    /\ warnings[Len(warnings)]
       = Warn("api_error_transient", temperatures_to_try[attempts])

\* C22: the i-th capability call of an invocation uses
\* TEMPERATURE_SEQUENCE[i]; at most one call is in flight at any time; and
\* call i+1 starts only after the outcome of call i has been scored and
\* compared with the retained best candidate.
C22_SequentialInOrder ==
    /\ calls = attempts
    /\ calls <= Len(temperatures_to_try)
    /\ Len(outcomes) = IF drv_pc = "await" THEN calls - 1 ELSE calls
    /\ drv_pc = "await" =>
          temperatures_to_try[calls] = TEMPERATURE_SEQUENCE[calls]
    /\ \A i \in DOMAIN cands :
          /\ cands[i].attempt_index <= Len(outcomes)
          /\ cands[i].cand.temperature
             = TEMPERATURE_SEQUENCE[cands[i].attempt_index]
    /\ \A i \in DOMAIN warnings :
          "temp" \in DOMAIN warnings[i] =>
              \E k \in 1..Len(outcomes) :
                  warnings[i].temp = TEMPERATURE_SEQUENCE[k]
    /\ best_result # Nothing =>
          \E i \in DOMAIN cands : best_result = cands[i].cand

\* the fifth call in flight at temperature 0.6, four outcomes evaluated
C22_Witness ==
    /\ drv_pc = "await"
    /\ calls = 5
    /\ Len(outcomes) = 4
    /\ temperatures_to_try[calls] = 6
    /\ Len(cands) = 2

\* the i-th entries of a sequence, as a set
Elements(seq) == { seq[i] : i \in DOMAIN seq }

\* C23: a file under the size cap and in a native format whose loudness is
\* below -30 dBFS is processed: prepare_audio normalizes it and reports
\* was_processed = true with a normalize step.
C23_LoudnessTriggersConditioning ==
    (/\ conditioned # Nothing /\ audio.exists
     /\ audio.size <= MAX_FILE_SIZE_MB * MB
     /\ audio.has_dot /\ lower(audio.suffix) \in WHISPER_NATIVE_FORMATS
     /\ audio.dBFS < -30
     /\ conditioned.raised = None
     /\ "error" \notin DOMAIN conditioned.metadata) =>
        /\ conditioned.metadata.was_processed = TRUE
        /\ "normalize_volume" \in Elements(conditioned.metadata.processing_steps)

\* C24: when transcribe returns, warnings holds at least one entry for each
\* attempt made, whatever the attempt's outcome was: a clean candidate, a
\* capability error, or a candidate with detected repetition. (The entries
\* about an attempt name its temperature, and the temperatures differ.)
C24_WarningsRecordEveryAttempt ==
    LoopRan =>
        \A k \in 1..result.attempts :
            \E i \in DOMAIN result.warnings :
                /\ "temp" \in DOMAIN result.warnings[i]
                /\ result.warnings[i].temp = temperatures_to_try[k]

\* C27: transcribe returns quality FAILED from its attempt loop only if every
\* attempt raised an error; whenever a capability call returned a text,
\* whatever its score (0.0 included), the result carries the transcript of
\* that call or of a call that scored at least as well.
C27_FailedOnlyWithoutCandidate ==
    LoopRan =>
        /\ result.quality = "FAILED" => cands = <<>>
        /\ \A j \in DOMAIN cands :
              \E i \in DOMAIN cands :
                  /\ cands[i].cand.quality_score >= cands[j].cand.quality_score
                  /\ result.transcript = cands[i].cand.transcript

\* C28: every candidate with has_repetition = true has quality_score <= 0.5,
\* so it never triggers accept-early, and a result whose best candidate has
\* repetition is never rated EXCELLENT or GOOD; conversely every result rated
\* EXCELLENT or GOOD has a best candidate without repetition.
C28_RepetitionCapsQuality ==
    /\ \A i \in DOMAIN cands :
          cands[i].cand.has_repetition =>
              /\ cands[i].cand.quality_score <= 500
              /\ ~AcceptEarly(cands[i].cand.quality_score,
                              cands[i].cand.has_repetition)
              /\ outcomes[cands[i].attempt_index] # "accept"
    /\ (Done /\ best_result # Nothing) =>
          /\ result.quality \in {"EXCELLENT", "GOOD"}
             <=> (best_score >= 700 /\ ~best_result.has_repetition)
          /\ best_result.has_repetition =>
                result.quality \in {"FAIR", "POOR"}

\* a looping transcript at 0.5 was the best of five attempts: rated FAIR
C28_Witness ==
    /\ Done /\ best_result # Nothing
    /\ best_result.has_repetition
    /\ best_score = 500
    /\ result.quality = "FAIR"
    /\ calls = 5

\* ------------------------------------------------ the pipeline's properties
\* the request's task was cancelled between two attempts (the attempt counted
\* last made no capability call), or while a call was awaited
Cancelled == drv_pc = "cancelled"
CancelledBetweenAttempts == Cancelled /\ attempts = calls + 1

MIN_DURATION_MS == 1000
MAX_DURATION_MS == 7200 * 1000

\* C26: on the production pipeline, audio whose duration is below 1 second
\* or above 2 hours is rejected with a validation failure and the
\* transcription capability is never called for it.
C26_DurationValidatedBeforeCalls ==
    (/\ processed_path # None
     /\ duration < MIN_DURATION_MS \/ duration > MAX_DURATION_MS) =>
        /\ calls = 0
        /\ transcriptions = {}
        /\ \A t \in Tasks : pc[t] = "done" => http_error[t] # None

\* ---------------------------------------------- the lifecycle's properties
\* C29: after any sequence of upload, set_retention_policy, enable_retention,
\* delete_audio_file, cleanup_expired_audio and delete_recording, every
\* recording with can_regenerate = true still has its audio file on disk.
C29_RegenerableHasAudio ==
    Between =>
        \A r \in recordings : rec_rows[r].can_regenerate => r \in audio_files

\* a recording uploaded by a FREE or BASIC user or anonymously
NonProUpload(r) == r \in recordings /\ rec_user[r] # "pro"

\* C30: for a recording uploaded by a FREE or BASIC user or anonymously,
\* set_retention_policy schedules deletion at upload time, and the audio file
\* is eventually removed from disk by the cleanup job once it runs (without
\* the user deleting it manually).
C30_NonProAudioEventuallyRemoved ==
    \A r \in RecIds :
        (NonProUpload(r) /\ r \in audio_files) ~> (r \notin audio_files)

====
